---- MODULE Spec2Model ----
(***************************************************************************)
(* Model of RaiParser (local.py): the recursive traversal of RaiPlaySound  *)
(* descriptors, the assembly of one feed per node, the ordering of the     *)
(* items and the emission of the feeds on the standard output.             *)
(***************************************************************************)
EXTENDS Integers, Sequences, FiniteSets, TLC

VARIABLES
    category_info, \* the category keys of podcast_info in the descriptors served
    opts,        \* the two keyword arguments of the top-level process()
    served,      \* the remote service: how many tab entries and cards it has served
    stack,       \* the call stack of process() activations, root first
    requests,    \* every requests.get issued so far, in order
    stdout,      \* every document written to the standard output, in order
    status,      \* "running", "done" (the root call returned) or the uncaught exception
    result,      \* the list returned by the top-level process()
    lastCard,    \* how the card got its audio, if the step just taken ended a card
    lastFetch,   \* the answer to a descriptor GET, if the step just taken made one
    lastExtend,  \* what became of a weblink, if the step just taken read one
    lastReturn   \* the return of a process() call, if the step just taken is one

vars == <<category_info, opts, served, stack, requests, stdout, status, result, lastCard,
          lastFetch, lastExtend, lastReturn>>

----------------------------------------------------------------------------
(* Bounds of the explored descriptor graphs.                               *)

\* total number of tab_menu entries and cards in the descriptors the service serves
MaxEntries == 3
\* depth of the call stack at which the interpreter raises RecursionError
MaxDepth == 3
\* number of items of the feeds whose ordering is explored on its own
MaxItems == 3
\* total number of entries in the category lists of a descriptor
MaxNames == 5

----------------------------------------------------------------------------
(* URLs.  A URL is a host and a path; a path is its sequence of segments.  *)

Host == "www.raiplaysound.it"

Paths == { <<"programmi", "a">>, <<"playlist", "b">>, <<"playlist", "c">> }

Nodes == [host : {Host}, path : Paths]

RootUrl == [host |-> Host, path |-> <<"programmi", "a">>]

\* an absent weblink: item.get("weblink", "")
NoLink == <<>>

\* urljoin(base, link) for the site-relative links of the descriptors
urljoin(base, link) == [host |-> base.host, path |-> link]

\* "/playlist/" in weblink
HasPlaylistMarker(link) ==
    \E i \in 1..(Len(link) - 1) : link[i] = "playlist"

----------------------------------------------------------------------------
(* JSON scalars of the season / episode fields.                            *)

Digits == <<"0", "1", "2", "3", "4", "5", "6", "7", "8", "9">>

None == [t |-> "none", n |-> 0, s |-> <<>>]
IntV(n) == [t |-> "int", n |-> n, s |-> <<>>]
StrV(s) == [t |-> "str", n |-> 0, s |-> s]

\* Python truthiness of a JSON scalar
Truthy(v) ==
    CASE v.t = "none" -> FALSE
      [] v.t = "int" -> v.n # 0
      [] v.t = "str" -> v.s # <<>>

\* code point of a character (digits sort before letters)
Ord(c) ==
    CASE c = "0" -> 48 [] c = "1" -> 49 [] c = "2" -> 50 [] c = "3" -> 51
      [] c = "4" -> 52 [] c = "5" -> 53 [] c = "6" -> 54 [] c = "7" -> 55
      [] c = "8" -> 56 [] c = "9" -> 57 [] c = "x" -> 120 [] c = "y" -> 121

IsDigit(c) == \E d \in 1..10 : Digits[d] = c

DigitVal(c) == (CHOOSE d \in 1..10 : Digits[d] = c) - 1

\* int(v) raises ValueError
RaisesValueError(v) ==
    v.t = "str" /\ (v.s = <<>> \/ \E i \in 1..Len(v.s) : ~IsDigit(v.s[i]))

RECURSIVE ParseDigits(_)
ParseDigits(s) ==
    IF s = <<>> THEN 0
    ELSE 10 * ParseDigits(SubSeq(s, 1, Len(s) - 1)) + DigitVal(s[Len(s)])

\* int(v), for a v it does not raise on
int(v) == IF v.t = "int" THEN v.n ELSE ParseDigits(v.s)

RECURSIVE DecimalDigits(_)
DecimalDigits(n) ==
    IF n < 10 THEN <<Digits[n + 1]>>
    ELSE DecimalDigits(n \div 10) \o <<Digits[(n % 10) + 1]>>

\* str(v)
str(v) == IF v.t = "int" THEN DecimalDigits(v.n) ELSE v.s

\* s.zfill(width): pads on the left with "0", never truncates
RECURSIVE zfill(_, _)
zfill(s, width) == IF Len(s) >= width THEN s ELSE zfill(<<"0">> \o s, width)

\* a string as the sequence of its code points
CodePoints(s) == [i \in 1..Len(s) |-> Ord(s[i])]

\* a < b for two sort keys, each a sequence of naturals compared as Python
\* compares strings (and, for keys of one element, integers)
KeyLess(a, b) ==
    \E i \in 1..(Len(a) + 1) :
        /\ \A j \in 1..(i - 1) : j <= Len(b) /\ a[j] = b[j]
        /\ i <= Len(b)
        /\ (i > Len(a) \/ a[i] < b[i])

\* x put after the last pair of the sorted sequence whose key is not greater
InsertByKey(sorted, x) ==
    LET p == Cardinality({i \in 1..Len(sorted) : ~KeyLess(x.key, sorted[i].key)})
    IN  [i \in 1..(Len(sorted) + 1) |->
            IF i <= p THEN sorted[i] ELSE IF i = p + 1 THEN x ELSE sorted[i - 1]]

\* sorted(items, key=...) on a sequence of [key, item] pairs: ascending and
\* stable (equal keys keep their input order)
RECURSIVE SortedByKey(_)
SortedByKey(pairs) ==
    IF pairs = <<>> THEN <<>>
    ELSE InsertByKey(SortedByKey(SubSeq(pairs, 1, Len(pairs) - 1)), pairs[Len(pairs)])

\* the numeric key with its two operands exchanged
NumericKeyEpisodeFirst(e) == <<int(e.season) + int(e.episode) * 10000>>

\* the numeric key with 1000 for 10000
NumericKeyBy1000(e) == <<int(e.episode) + int(e.season) * 1000>>

\* the key of the first sorted() call: episode + season * 10000
NumericKey(e) == <<int(e.episode) + int(e.season) * 10000>>

\* the lexical key without the zfill(5)
LexicalKeyUnpadded(e) == CodePoints(str(e.season) \o str(e.episode))

\* the key of the second sorted() call: season.zfill(5) + episode.zfill(5)
LexicalKey(e) == CodePoints(zfill(str(e.season), 5) \o zfill(str(e.episode), 5))

\* Feed.sort_items() of feedendum: ascending by update, "no value" (0) first
ChronoKey(e) == <<e.update>>

\* the items of a sequence of [key, item] pairs
ItemsOf(pairs) == [i \in 1..Len(pairs) |-> pairs[i].item]

\* sorted(items, key=...), keys[i] being the key of items[i]
SortWith(items, keys) ==
    ItemsOf(SortedByKey([i \in 1..Len(items) |->
                            [key |-> keys[i], item |-> items[i]]]))

\* which of the three orderings process() applies to a non-empty item list
SortStrategy(items) ==
    IF /\ \A i \in 1..Len(items) : Truthy(items[i].episode)
       /\ \A i \in 1..Len(items) : Truthy(items[i].season)
    THEN IF \E i \in 1..Len(items) :
                RaisesValueError(items[i].episode) \/ RaisesValueError(items[i].season)
         THEN "lexical"
         ELSE "numeric"
    ELSE "chrono"

\* the item list as process() leaves it before writing the feed
SortItems(items) ==
    IF SortStrategy(items) = "numeric"
    THEN SortWith(items, [i \in 1..Len(items) |-> NumericKey(items[i])])
    ELSE IF SortStrategy(items) = "lexical"
    THEN SortWith(items, [i \in 1..Len(items) |-> LexicalKey(items[i])])
    ELSE SortWith(items, [i \in 1..Len(items) |-> ChronoKey(items[i])])

----------------------------------------------------------------------------
(* Descriptors served by the remote service.  A descriptor is drawn field  *)
(* by field, as process() reads it: its status, typology and the lengths   *)
(* of its two lists when it is fetched, each tab_menu entry and each card  *)
(* when its loop reaches it.                                               *)

Typologies ==
    {"Programmi Radio", "informazione notiziari", "Film", "fiction", "Podcast"}

\* str.lower() on the typologies
lower(t) ==
    CASE t = "Programmi Radio" -> "programmi radio"
      [] t = "Film" -> "film"
      [] t = "Podcast" -> "podcast"
      [] OTHER -> t

ContentTypes == {"playlist", "audio"}

Tabs == [content_type : ContentTypes, weblink : Paths]

CardLinks == Paths \cup {NoLink}

\* How a card gets its audio: "embedded" has downloadable_audio itself; the
\* others lack it and name what the GET of their path_id answers: a document
\* with downloadable_audio, a document without it, or an HTTP error.
AudioKinds == {"embedded", "fallback_audio", "fallback_noaudio", "fallback_error"}

\* item.get("season"), item.get("episode") and the create_date of the cards
\* of the traversal; SortCards below draws them from wider sets
CardSeasons == {IntV(1)}
CardEpisodes == {IntV(1)}
CardDates == {1}

\* the fields of a card read once its weblink has been dealt with
CardBodies ==
    [audio : AudioKinds, season : CardSeasons, episode : CardEpisodes,
     created : CardDates]

\* the names of the genres, subgenres and product sources
Names == {"A", "B", "C"}

\* a list of {"name": ...} objects under a key of podcast_info, the key
\* being present or not
AbsentKey == [present |-> FALSE, entries |-> <<>>]
ListUnder(entries) == [present |-> TRUE, entries |-> entries]

\* dict.get(key, [])
Get(list) == IF list.present THEN list.entries ELSE <<>>

\* chain(genres, subgenres, dfp.get("escaped_genres", []),
\*       dfp.get("escaped_typology", []))
ChainEntries(info) ==
    info.genres \o info.subgenres
        \o Get(info.escaped_genres) \o Get(info.escaped_typology)

\* rdata["podcast_info"]["metadata"]["product_sources"] raises KeyError
ProductSourcesMissing(info) == ~info.metadata \/ ~info.product_sources.present

\* the entries the loop in the try block goes through: none when the
\* lookup raises KeyError, which is caught and passed
ProductEntries(info) ==
    IF ProductSourcesMissing(info) THEN <<>> ELSE info.product_sources.entries

\* categories.add(c["name"]) for each entry, on the set categories
AddAll(categories, entries) ==
    categories \cup {entries[i].name : i \in 1..Len(entries)}

\* the set categories once both loops are over
CategorySet(info) ==
    AddAll(AddAll({}, ChainEntries(info)), ProductEntries(info))

\* the names kept in a list, added one by one without the set
CategoryListsAppended(info) ==
    {[i \in 1..Len(ChainEntries(info) \o ProductEntries(info)) |->
        (ChainEntries(info) \o ProductEntries(info))[i].name]}

\* [{"@text": c} for c in categories]: the lists the iteration of the set
\* may give, each name once, in any order
CategoryLists(info) ==
    {l \in [1..Cardinality(CategorySet(info)) -> CategorySet(info)] :
        \A i, j \in 1..Len(l) : l[i] = l[j] => i = j}

\* the category keys of the descriptors of the traversal
PlainInfo ==
    [genres |-> <<[name |-> "A"]>>, subgenres |-> <<>>,
     escaped_genres |-> AbsentKey, escaped_typology |-> AbsentKey,
     metadata |-> FALSE, product_sources |-> AbsentKey]

\* the documents a GET of url + ".json" may be answered with: an HTTP error,
\* a JSON document without the podcast_info key, or a descriptor
Descriptors ==
    [status : {"error"}, podcast_info : {FALSE}, typology : {""},
     ntabs : {0}, ncards : {0}]
    \cup
    [status : {"ok"}, podcast_info : {FALSE}, typology : {""},
     ntabs : {0}, ncards : {0}]
    \cup
    {d \in [status : {"ok"}, podcast_info : {TRUE}, typology : Typologies,
            ntabs : 0..MaxEntries, ncards : 0..MaxEntries] :
        served.tabs + served.cards + d.ntabs + d.ncards <= MaxEntries}

----------------------------------------------------------------------------
(* The program.                                                            *)

\* RaiParser.__init__ followed by the entry into process()
NewParser(url) ==
    [url |-> url, pc |-> "fetch", ntabs |-> 0, ncards |-> 0,
     ti |-> 1, ci |-> 1, inner |-> <<>>, followed |-> NoLink, categories |-> <<>>, items |-> <<>>,
     reqMark |-> Len(requests), outMark |-> Len(stdout)]

NoReturn ==
    [url |-> RootUrl, kind |-> "none", value |-> <<>>,
     depth |-> 0, reqs |-> 0, writes |-> 0]

NoCard == "none"

\* no weblink read
NoExtend == [url |-> RootUrl, link |-> NoLink, outcome |-> "none"]

\* def process(self, skip_programmi=True, skip_film=True)
DefaultOptions == [skip_programmi |-> TRUE, skip_film |-> TRUE]

NoFetch ==
    [url |-> RootUrl, status |-> "none", podcast_info |-> FALSE, typology |-> "",
     options |-> DefaultOptions]

Init ==
    /\ category_info = PlainInfo
    /\ opts \in [skip_programmi : BOOLEAN, skip_film : BOOLEAN]
    /\ served = [tabs |-> 0, cards |-> 0]
    /\ requests = <<>>
    /\ stdout = <<>>
    /\ stack = <<[url |-> RootUrl, pc |-> "fetch",
                  ntabs |-> 0, ncards |-> 0, ti |-> 1, ci |-> 1,
                  inner |-> <<>>, followed |-> NoLink, categories |-> <<>>, items |-> <<>>,
                  reqMark |-> 0, outMark |-> 0]>>
    /\ status = "running"
    /\ result = <<>>
    /\ lastCard = NoCard
    /\ lastExtend = NoExtend
    /\ lastFetch = NoFetch
    /\ lastReturn = NoReturn

Depth == Len(stack)
Top == stack[Depth]

Running(pc) == status = "running" /\ Depth > 0 /\ Top.pc = pc

\* the arguments of the top call: main() passes its own to the root call,
\* extend() calls parser.process() without arguments
Options == IF Depth = 1 THEN opts ELSE DefaultOptions

\* the answer d to the GET of url + ".json"
Fetched(url, d) ==
    [url |-> url, status |-> d.status, podcast_info |-> d.podcast_info,
     typology |-> d.typology, options |-> Options]

\* the caller's frame with self.inner.append(parser.process()[0]) in extend()
ResumeFirstFeedOnly(p, value) ==
    LET first == IF value = <<>> THEN <<>> ELSE <<value[1]>> IN
    IF p.pc = "tabs"
    THEN [p EXCEPT !.inner = p.inner \o first, !.ti = p.ti + 1]
    ELSE [p EXCEPT !.inner = p.inner \o first, !.pc = "cards_audio"]

\* the caller's frame once extend() has appended the list a child returned:
\* self.inner.extend(parser.process()), then the loop the call was made from
Resume(p, value) ==
    IF p.pc = "tabs"
    THEN [p EXCEPT !.inner = p.inner \o value, !.ti = p.ti + 1]
    ELSE [p EXCEPT !.inner = p.inner \o value, !.pc = "cards_audio"]

\* the top process() call returns value; reqs and out are the request log
\* and the output as the call leaves them
Return(value, kind, reqs, out) ==
    /\ lastReturn' = [url |-> Top.url, kind |-> kind,
                      value |-> value, depth |-> Depth,
                      reqs |-> Len(reqs) - Top.reqMark,
                      writes |-> Len(out) - Top.outMark]
    /\ IF Depth = 1
       THEN /\ stack' = <<>>
            /\ result' = value
            /\ status' = "done"
       ELSE /\ stack' = SubSeq(stack, 1, Depth - 2)
                            \o <<Resume(stack[Depth - 1], value)>>
            /\ UNCHANGED <<result, status>>

DescriptorRequest(url) == [kind |-> "descriptor", url |-> url]

\* the typology filter without the .lower() of the typology
SkippedTypologyCaseSensitive(typology) ==
    \/ Options.skip_programmi
        /\ typology \in {"programmi radio", "informazione notiziari"}
    \/ Options.skip_film /\ typology \in {"film", "fiction"}

\* typology in ("programmi radio", "informazione notiziari") and skip_programmi,
\* or typology in ("film", "fiction") and skip_film
SkippedTypology(typology) ==
    \/ Options.skip_programmi
        /\ lower(typology) \in {"programmi radio", "informazione notiziari"}
    \/ Options.skip_film /\ lower(typology) \in {"film", "fiction"}

\* process() without the try around raise_for_status(): HTTPError, uncaught
FetchErrorRaises ==
    /\ Running("fetch")
    /\ \E d \in Descriptors :
        /\ d.status = "error"
        /\ requests' = Append(requests, DescriptorRequest(Top.url))
        /\ lastFetch' = Fetched(Top.url, d)
        /\ lastCard' = NoCard
        /\ lastExtend' = NoExtend
        /\ lastReturn' = NoReturn
        /\ status' = "HTTPError"
        /\ UNCHANGED <<category_info, opts, served, stack, stdout, result>>

\* process(): the GET fails, the call returns self.inner
FetchError ==
    /\ Running("fetch")
    /\ \E d \in Descriptors :
        /\ d.status = "error"
        /\ requests' = Append(requests, DescriptorRequest(Top.url))
        /\ lastFetch' = Fetched(Top.url, d)
        /\ lastCard' = NoCard
        /\ lastExtend' = NoExtend
        /\ Return(Top.inner, "failed", requests', stdout)
        /\ UNCHANGED <<category_info, opts, served, stdout>>

\* process() with KeyError caught along with HTTPError: return self.inner
FetchMalformedCaught ==
    /\ Running("fetch")
    /\ \E d \in Descriptors :
        /\ d.status = "ok" /\ ~d.podcast_info
        /\ requests' = Append(requests, DescriptorRequest(Top.url))
        /\ lastFetch' = Fetched(Top.url, d)
        /\ lastCard' = NoCard
        /\ lastExtend' = NoExtend
        /\ Return(Top.inner, "failed", requests', stdout)
        /\ UNCHANGED <<category_info, opts, served, stdout>>

\* process(): rdata["podcast_info"] raises KeyError, which nothing catches
FetchMalformed ==
    /\ Running("fetch")
    /\ \E d \in Descriptors :
        /\ d.status = "ok" /\ ~d.podcast_info
        /\ requests' = Append(requests, DescriptorRequest(Top.url))
        /\ lastFetch' = Fetched(Top.url, d)
        /\ lastCard' = NoCard
        /\ lastExtend' = NoExtend
        /\ status' = "KeyError"
        /\ lastReturn' = NoReturn
        /\ UNCHANGED <<category_info, opts, served, stack, stdout, result>>

\* process(): the typology is one to skip, the call returns []
FetchSkipped ==
    /\ Running("fetch")
    /\ \E d \in Descriptors :
        /\ d.status = "ok" /\ d.podcast_info /\ SkippedTypology(d.typology)
        /\ requests' = Append(requests, DescriptorRequest(Top.url))
        /\ lastFetch' = Fetched(Top.url, d)
        /\ lastCard' = NoCard
        /\ lastExtend' = NoExtend
        /\ served' = [tabs |-> served.tabs + d.ntabs,
                      cards |-> served.cards + d.ncards]
        /\ Return(<<>>, "skipped", requests', stdout)
        /\ UNCHANGED <<category_info, opts, stdout>>

\* process(): the descriptor is kept, the tab_menu loop starts
FetchOk ==
    /\ Running("fetch")
    /\ \E d \in Descriptors :
        /\ d.status = "ok" /\ d.podcast_info /\ ~SkippedTypology(d.typology)
        /\ requests' = Append(requests, DescriptorRequest(Top.url))
        /\ lastFetch' = Fetched(Top.url, d)
        /\ lastCard' = NoCard
        /\ lastExtend' = NoExtend
        /\ served' = [tabs |-> served.tabs + d.ntabs,
                      cards |-> served.cards + d.ncards]
        /\ stack' = [stack EXCEPT ![Depth] =
                        [@ EXCEPT !.pc = "tabs",
                                  !.ntabs = d.ntabs, !.ncards = d.ncards]]
        /\ lastReturn' = NoReturn
        /\ UNCHANGED <<category_info, opts, stdout, status, result>>

\* extend(): the url the link resolves to
Target(link) == urljoin(Top.url, link)

\* extend() without the test on the feeds of self.inner
ExtendIgnoresSelfOnly(link) == Target(link) = Top.url

\* extend(): the two early returns
ExtendIgnores(link) ==
    \/ Target(link) = Top.url
    \/ \E i \in 1..Len(Top.inner) : Top.inner[i].url = Target(link)

\* the weblink the top call has read in a tab_menu entry or in a card:
\* "unread" when extend() is not called for it, "ignored" when extend()
\* returns early, "called" when extend() calls process() on a new parser
Extended(link, outcome) == [url |-> Top.url, link |-> link, outcome |-> outcome]

\* extend(): parser = RaiParser(url); parser.process(); past MaxDepth the
\* interpreter refuses the call: RecursionError, which nothing catches
Call(link) ==
    /\ IF Depth < MaxDepth
       THEN /\ stack' = Append([stack EXCEPT ![Depth].followed = link],
                               NewParser(Target(link)))
            /\ UNCHANGED status
       ELSE /\ status' = "RecursionError"
            /\ UNCHANGED stack
    /\ lastReturn' = NoReturn
    /\ lastFetch' = NoFetch
    /\ lastCard' = NoCard
    /\ lastExtend' = Extended(link, "called")
    /\ UNCHANGED <<category_info, opts, served, requests, stdout, result>>

HasTab == Top.ti <= Top.ntabs

\* the tab_menu loop on an entry that is not a playlist
TabOther ==
    /\ Running("tabs") /\ HasTab
    /\ \E tab \in Tabs :
        /\ tab.content_type # "playlist"
        /\ stack' = [stack EXCEPT ![Depth].ti = @ + 1]
        /\ lastExtend' = Extended(tab.weblink, "unread")
    /\ lastReturn' = NoReturn
    /\ lastFetch' = NoFetch
    /\ lastCard' = NoCard
    /\ UNCHANGED <<category_info, opts, served, requests, stdout, status, result>>

\* the tab_menu loop on a playlist entry that extend() ignores
TabExtendIgnored ==
    /\ Running("tabs") /\ HasTab
    /\ \E tab \in Tabs :
        /\ tab.content_type = "playlist"
        /\ ExtendIgnores(tab.weblink)
        /\ stack' = [stack EXCEPT ![Depth].ti = @ + 1]
        /\ lastExtend' = Extended(tab.weblink, "ignored")
    /\ lastReturn' = NoReturn
    /\ lastFetch' = NoFetch
    /\ lastCard' = NoCard
    /\ UNCHANGED <<category_info, opts, served, requests, stdout, status, result>>

\* the tab_menu loop on a playlist entry that extend() traverses
TabExtendCall ==
    /\ Running("tabs") /\ HasTab
    /\ \E tab \in Tabs :
        /\ tab.content_type = "playlist"
        /\ ~ExtendIgnores(tab.weblink)
        /\ Call(tab.weblink)

\* feed = Feed() and the head of _json_to_feed, up to the loop on the cards
BeginFeed ==
    /\ Running("tabs") /\ ~HasTab
    /\ \E categories \in CategoryLists(category_info) :
        stack' = [stack EXCEPT ![Depth] =
                    [@ EXCEPT !.pc = "cards_link", !.ci = 1,
                              !.followed = NoLink,
                              !.categories = categories]]
    /\ lastReturn' = NoReturn
    /\ lastFetch' = NoFetch
    /\ lastCard' = NoCard
    /\ lastExtend' = NoExtend
    /\ UNCHANGED <<category_info, opts, served, requests, stdout, status, result>>

\* _json_to_feed(): rdata["title"] (or another key read before the cards)
\* raises KeyError, which nothing catches
FeedMalformed ==
    /\ Running("tabs") /\ ~HasTab
    /\ status' = "KeyError"
    /\ lastReturn' = NoReturn
    /\ lastFetch' = NoFetch
    /\ lastCard' = NoCard
    /\ lastExtend' = NoExtend
    /\ UNCHANGED <<category_info, opts, served, stack, requests, stdout, result>>

HasCard == Top.ci <= Top.ncards

\* a card whose weblink has no playlist marker
CardNoLink ==
    /\ Running("cards_link") /\ HasCard
    /\ \E link \in CardLinks :
        /\ ~HasPlaylistMarker(link)
        /\ stack' = [stack EXCEPT ![Depth] =
                        [@ EXCEPT !.pc = "cards_audio", !.followed = NoLink]]
        /\ lastExtend' = Extended(link, "unread")
    /\ lastReturn' = NoReturn
    /\ lastFetch' = NoFetch
    /\ lastCard' = NoCard
    /\ UNCHANGED <<category_info, opts, served, requests, stdout, status, result>>

\* a card whose playlist weblink extend() ignores
CardExtendIgnored ==
    /\ Running("cards_link") /\ HasCard
    /\ \E link \in CardLinks :
        /\ HasPlaylistMarker(link)
        /\ ExtendIgnores(link)
        /\ stack' = [stack EXCEPT ![Depth] =
                        [@ EXCEPT !.pc = "cards_audio", !.followed = NoLink]]
        /\ lastExtend' = Extended(link, "ignored")
    /\ lastReturn' = NoReturn
    /\ lastFetch' = NoFetch
    /\ lastCard' = NoCard
    /\ UNCHANGED <<category_info, opts, served, requests, stdout, status, result>>

\* extend() called after the audio of the card is resolved, not before
CardExtendCallDeferred ==
    /\ Running("cards_link") /\ HasCard
    /\ \E link \in CardLinks :
        /\ HasPlaylistMarker(link)
        /\ ~ExtendIgnores(link)
        /\ stack' = [stack EXCEPT ![Depth] =
                        [@ EXCEPT !.pc = "cards_audio", !.followed = NoLink]]
        /\ lastExtend' = Extended(link, "unread")
    /\ lastReturn' = NoReturn
    /\ lastFetch' = NoFetch
    /\ lastCard' = NoCard
    /\ UNCHANGED <<category_info, opts, served, requests, stdout, status, result>>

\* a card whose playlist weblink extend() traverses
CardExtendCall ==
    /\ Running("cards_link") /\ HasCard
    /\ \E link \in CardLinks :
        /\ HasPlaylistMarker(link)
        /\ ~ExtendIgnores(link)
        /\ Call(link)

\* item["uniquename"] of card ci of the descriptor of url
UniqueName(url, ci) == <<url.path[2], Digits[ci + 1]>>

\* item["path_id"], and the GET of scheme://netloc/path_id
PathId == <<"audio">> \o UniqueName(Top.url, Top.ci)
FallbackRequest ==
    [kind |-> "fallback", url |-> [host |-> Top.url.host, path |-> PathId]]

\* downloadable_audio["url"] of the card, in the card or in the document of
\* its path_id
AudioUrl(url, ci) == <<"audio">> \o UniqueName(url, ci) \o <<"mp3">>

\* an absent downloadable_audio
NoAudio == <<>>

\* the FeedItem built from card ci of the descriptor of url, audio_url being
\* the downloadable_audio["url"] found
FeedItem(url, ci, card, audio_url) ==
    LET both == Truthy(card.season) /\ Truthy(card.episode) IN
    [id |-> UniqueName(url, ci),
     enclosure |-> urljoin(url, audio_url),
     season |-> IF both THEN card.season ELSE None,
     episode |-> IF both THEN card.episode ELSE None,
     update |-> card.created]

NextCard(f) == [f EXCEPT !.pc = "cards_link", !.ci = f.ci + 1]

\* the card has downloadable_audio: feed.items.append(fitem)
CardEmbedded ==
    /\ Running("cards_audio")
    /\ \E card \in CardBodies :
        /\ card.audio = "embedded"
        /\ stack' = [stack EXCEPT ![Depth] =
                NextCard([@ EXCEPT !.items =
                    Append(@, FeedItem(Top.url, Top.ci, card,
                                              AudioUrl(Top.url, Top.ci)))])]
    /\ lastReturn' = NoReturn
    /\ lastFetch' = NoFetch
    /\ lastCard' = "embedded"
    /\ lastExtend' = NoExtend
    /\ UNCHANGED <<category_info, opts, served, requests, stdout, status, result>>

\* the fallback GET fails and ends the loop on the cards (break for continue)
CardFallbackErrorBreaks ==
    /\ Running("cards_audio")
    /\ \E card \in CardBodies :
        /\ card.audio = "fallback_error"
        /\ requests' = Append(requests, FallbackRequest)
        /\ stack' = [stack EXCEPT ![Depth] =
                        [@ EXCEPT !.pc = "cards_link", !.ci = Top.ncards + 1]]
    /\ lastReturn' = NoReturn
    /\ lastFetch' = NoFetch
    /\ lastCard' = "fallback_error"
    /\ lastExtend' = NoExtend
    /\ UNCHANGED <<category_info, opts, served, stdout, status, result>>

\* the card lacks it and the GET of its path_id fails: continue
CardFallbackError ==
    /\ Running("cards_audio")
    /\ \E card \in CardBodies :
        /\ card.audio = "fallback_error"
        /\ requests' = Append(requests, FallbackRequest)
        /\ stack' = [stack EXCEPT ![Depth] = NextCard(@)]
    /\ lastReturn' = NoReturn
    /\ lastFetch' = NoFetch
    /\ lastCard' = "fallback_error"
    /\ lastExtend' = NoExtend
    /\ UNCHANGED <<category_info, opts, served, stdout, status, result>>

\* the document of the path_id lacks it and the card is appended all the same
CardFallbackNoAudioAppends ==
    /\ Running("cards_audio")
    /\ \E card \in CardBodies :
        /\ card.audio = "fallback_noaudio"
        /\ requests' = Append(requests, FallbackRequest)
        /\ stack' = [stack EXCEPT ![Depth] =
                NextCard([@ EXCEPT !.items =
                    Append(@, FeedItem(Top.url, Top.ci, card, NoAudio))])]
    /\ lastReturn' = NoReturn
    /\ lastFetch' = NoFetch
    /\ lastCard' = "fallback_noaudio"
    /\ lastExtend' = NoExtend
    /\ UNCHANGED <<category_info, opts, served, stdout, status, result>>

\* the card lacks it and so does the document of its path_id: continue
CardFallbackNoAudio ==
    /\ Running("cards_audio")
    /\ \E card \in CardBodies :
        /\ card.audio = "fallback_noaudio"
        /\ requests' = Append(requests, FallbackRequest)
        /\ stack' = [stack EXCEPT ![Depth] = NextCard(@)]
    /\ lastReturn' = NoReturn
    /\ lastFetch' = NoFetch
    /\ lastCard' = "fallback_noaudio"
    /\ lastExtend' = NoExtend
    /\ UNCHANGED <<category_info, opts, served, stdout, status, result>>

\* the card lacks it and the document of its path_id has it: append
CardFallbackAudio ==
    /\ Running("cards_audio")
    /\ \E card \in CardBodies :
        /\ card.audio = "fallback_audio"
        /\ requests' = Append(requests, FallbackRequest)
        /\ stack' = [stack EXCEPT ![Depth] =
                NextCard([@ EXCEPT !.items =
                    Append(@, FeedItem(Top.url, Top.ci, card,
                                              AudioUrl(Top.url, Top.ci)))])]
    /\ lastReturn' = NoReturn
    /\ lastFetch' = NoFetch
    /\ lastCard' = "fallback_audio"
    /\ lastExtend' = NoExtend
    /\ UNCHANGED <<category_info, opts, served, stdout, status, result>>

\* the audio of the card is found, in the card or after the fallback GET, and
\* item["toptitle"] raises KeyError, which nothing catches
CardMalformed ==
    /\ Running("cards_audio")
    /\ \E card \in CardBodies :
        /\ card.audio \in {"embedded", "fallback_audio"}
        /\ requests' = IF card.audio = "embedded"
                        THEN requests ELSE Append(requests, FallbackRequest)
    /\ status' = "KeyError"
    /\ lastReturn' = NoReturn
    /\ lastFetch' = NoFetch
    /\ lastCard' = NoCard
    /\ lastExtend' = NoExtend
    /\ UNCHANGED <<category_info, opts, served, stack, stdout, result>>

\* the feed of the top call, its items ordered as process() orders them
AssembledFeed ==
    [url |-> Top.url,
     categories |-> Top.categories,
     items |-> IF Top.items # <<>> THEN SortItems(Top.items) ELSE <<>>]

\* the end of process() writing the feed of the root call only
EmitRootOnly ==
    /\ Running("cards_link") /\ ~HasCard
    /\ \E feed \in {AssembledFeed} :
        /\ stdout' = IF feed.items # <<>> /\ Depth = 1
                     THEN Append(stdout, feed) ELSE stdout
        /\ Return(<<feed>> \o Top.inner, "done", requests, stdout')
    /\ lastFetch' = NoFetch
    /\ lastCard' = NoCard
    /\ lastExtend' = NoExtend
    /\ UNCHANGED <<category_info, opts, served, requests>>

\* the end of process() returning self.inner + [feed]
EmitInnerFirst ==
    /\ Running("cards_link") /\ ~HasCard
    /\ \E feed \in {AssembledFeed} :
        /\ stdout' = IF feed.items # <<>> THEN Append(stdout, feed) ELSE stdout
        /\ Return(Top.inner \o <<feed>>, "done", requests, stdout')
    /\ lastFetch' = NoFetch
    /\ lastCard' = NoCard
    /\ lastExtend' = NoExtend
    /\ UNCHANGED <<category_info, opts, served, requests>>

\* the end of process() leaving the writing to the root call, which writes
\* the feeds of the list it returns
EmitDeferred ==
    /\ Running("cards_link") /\ ~HasCard
    /\ \E feed \in {AssembledFeed} :
        /\ stdout' = IF Depth = 1
                     THEN stdout \o SelectSeq(<<feed>> \o Top.inner,
                                              LAMBDA f : f.items # <<>>)
                     ELSE stdout
        /\ Return(<<feed>> \o Top.inner, "done", requests, stdout')
    /\ lastFetch' = NoFetch
    /\ lastCard' = NoCard
    /\ lastExtend' = NoExtend
    /\ UNCHANGED <<category_info, opts, served, requests>>

\* the end of process(): sort, write the feed if it has items, return
Emit ==
    /\ Running("cards_link") /\ ~HasCard
    /\ \E feed \in {AssembledFeed} :
        /\ stdout' = IF feed.items # <<>> THEN Append(stdout, feed) ELSE stdout
        /\ Return(<<feed>> \o Top.inner, "done", requests, stdout')
    /\ lastFetch' = NoFetch
    /\ lastCard' = NoCard
    /\ lastExtend' = NoExtend
    /\ UNCHANGED <<category_info, opts, served, requests>>

Next ==
    \/ FetchError
    \/ FetchMalformed
    \/ FetchSkipped
    \/ FetchOk
    \/ TabOther
    \/ TabExtendIgnored
    \/ TabExtendCall
    \/ FeedMalformed
    \/ BeginFeed
    \/ CardNoLink
    \/ CardExtendIgnored
    \/ CardExtendCall
    \/ CardEmbedded
    \/ CardFallbackError
    \/ CardFallbackNoAudio
    \/ CardFallbackAudio
    \/ CardMalformed
    \/ Emit

Spec == Init /\ [][Next]_vars

----------------------------------------------------------------------------
(* The ordering of the items on its own: the root call has read the last   *)
(* card of a descriptor without links whose cards all embed their audio,   *)
(* the seasons, episodes and dates being drawn from wider sets.            *)

SortSeasons == {None, IntV(1), IntV(10), StrV(<<"x">>)}
SortEpisodes == {StrV(<<"1">>), StrV(<<"2">>), StrV(<<"y">>)}
SortDates == {1, 2}

SortCards ==
    [audio : {"embedded"}, season : SortSeasons, episode : SortEpisodes,
     created : SortDates]

SortInit ==
    /\ category_info = PlainInfo
    /\ opts = DefaultOptions
    /\ \E n \in 0..MaxItems : \E cards \in [1..n -> SortCards] :
        /\ served = [tabs |-> 0, cards |-> Len(cards)]
        /\ stack = <<[url |-> RootUrl, pc |-> "cards_link",
                      ntabs |-> 0, ncards |-> Len(cards),
                      ti |-> 1, ci |-> Len(cards) + 1, inner |-> <<>>,
                      followed |-> NoLink, categories |-> <<"A">>,
                      items |-> [i \in 1..Len(cards) |->
                                    FeedItem(RootUrl, i, cards[i],
                                             AudioUrl(RootUrl, i))],
                      reqMark |-> 0, outMark |-> 0]>>
    /\ requests = <<DescriptorRequest(RootUrl)>>
    /\ stdout = <<>>
    /\ status = "running"
    /\ result = <<>>
    /\ lastCard = NoCard
    /\ lastExtend = NoExtend
    /\ lastFetch = NoFetch
    /\ lastReturn = NoReturn

SortNext == Emit

SortSpec == SortInit /\ [][SortNext]_vars

----------------------------------------------------------------------------
(* The numeric ordering on its own: as for the ordering above, the seasons *)
(* and episodes being numbers, or strings of digits, on both sides of      *)
(* 10000.                                                                  *)

NumericSeasons == {StrV(<<"0">>), IntV(1), IntV(2)}
NumericEpisodes ==
    {IntV(1), IntV(9999), IntV(10000), StrV(<<"1", "0", "0", "0", "1">>)}

NumericCards ==
    [audio : {"embedded"}, season : NumericSeasons, episode : NumericEpisodes,
     created : {1}]

NumericInit ==
    /\ category_info = PlainInfo
    /\ opts = DefaultOptions
    /\ \E n \in 0..MaxItems : \E cards \in [1..n -> NumericCards] :
        /\ served = [tabs |-> 0, cards |-> Len(cards)]
        /\ stack = <<[url |-> RootUrl, pc |-> "cards_link",
                      ntabs |-> 0, ncards |-> Len(cards),
                      ti |-> 1, ci |-> Len(cards) + 1, inner |-> <<>>,
                      followed |-> NoLink, categories |-> <<"A">>,
                      items |-> [i \in 1..Len(cards) |->
                                    FeedItem(RootUrl, i, cards[i],
                                             AudioUrl(RootUrl, i))],
                      reqMark |-> 0, outMark |-> 0]>>
    /\ requests = <<DescriptorRequest(RootUrl)>>
    /\ stdout = <<>>
    /\ status = "running"
    /\ result = <<>>
    /\ lastCard = NoCard
    /\ lastExtend = NoExtend
    /\ lastFetch = NoFetch
    /\ lastReturn = NoReturn

NumericNext == Emit

NumericSpec == NumericInit /\ [][NumericNext]_vars

----------------------------------------------------------------------------
(* The categories on their own: the root call has fetched a descriptor     *)
(* without tab_menu entries and without cards, the category keys of its    *)
(* podcast_info being drawn from wider sets.                               *)

\* entries first+1 .. last of a list of names, as {"name": ...} objects
EntriesOf(names, first, last) ==
    [i \in 1..(last - first) |-> [name |-> names[first + i]]]

CategoryInit ==
    /\ \E k \in 0..MaxNames : \E names \in [1..k -> Names] :
       \E c1 \in 0..k : \E c2 \in c1..k : \E c3 \in c2..k : \E c4 \in c3..k :
       \E eg, et, md, ps \in BOOLEAN :
        /\ ~eg => c3 = c2
        /\ ~et => c4 = c3
        /\ ~ps => k = c4
        /\ ~md => ~ps
        /\ category_info =
            [genres |-> EntriesOf(names, 0, c1),
             subgenres |-> EntriesOf(names, c1, c2),
             escaped_genres |->
                IF eg THEN ListUnder(EntriesOf(names, c2, c3)) ELSE AbsentKey,
             escaped_typology |->
                IF et THEN ListUnder(EntriesOf(names, c3, c4)) ELSE AbsentKey,
             metadata |-> md,
             product_sources |->
                IF ps THEN ListUnder(EntriesOf(names, c4, k)) ELSE AbsentKey]
    /\ opts = DefaultOptions
    /\ served = [tabs |-> 0, cards |-> 0]
    /\ stack = <<[url |-> RootUrl, pc |-> "tabs",
                  ntabs |-> 0, ncards |-> 0, ti |-> 1, ci |-> 1,
                  inner |-> <<>>, followed |-> NoLink, categories |-> <<>>, items |-> <<>>,
                  reqMark |-> 0, outMark |-> 0]>>
    /\ requests = <<DescriptorRequest(RootUrl)>>
    /\ stdout = <<>>
    /\ status = "running"
    /\ result = <<>>
    /\ lastCard = NoCard
    /\ lastExtend = NoExtend
    /\ lastFetch = NoFetch
    /\ lastReturn = NoReturn

CategoryNext == BeginFeed

CategorySpec == CategoryInit /\ [][CategoryNext]_vars

----------------------------------------------------------------------------
(* Claims.                                                                 *)

\* the positions of the request log that are descriptor GETs
DescriptorGets == {i \in 1..Len(requests) : requests[i].kind = "descriptor"}

\* C1: within one top-level process(), no node URL is the target of two
\* descriptor GETs.
C1_EachNodeFetchedOnce ==
    \A i, j \in DescriptorGets : requests[i].url = requests[j].url => i = j

\* C2: the top-level process() terminates by itself on every descriptor
\* graph: the recursion never runs until the interpreter stops it.
C2_RecursionStops == status # "RecursionError"

\* the typologies the two options are about, whatever their case
RadioTypologies == {"Programmi Radio", "informazione notiziari"}
FilmTypologies == {"Film", "fiction"}

\* the descriptor just fetched is one the options of its call tell to skip
FetchedSkippable ==
    /\ lastFetch.status = "ok" /\ lastFetch.podcast_info
    /\ \/ lastFetch.options.skip_programmi /\ lastFetch.typology \in RadioTypologies
       \/ lastFetch.options.skip_film /\ lastFetch.typology \in FilmTypologies

\* C3: a call whose descriptor has a typology to skip returns the empty list
\* in the step of its descriptor GET: that GET is its only request and it
\* writes nothing.
C3_SkippedReturnsEmpty ==
    FetchedSkippable =>
        /\ lastReturn.kind = "skipped"
        /\ lastReturn.url = lastFetch.url
        /\ lastReturn.value = <<>>
        /\ lastReturn.reqs = 1
        /\ lastReturn.writes = 0

\* a root "Programmi Radio" descriptor with cards, skipped under the default options
C3_Witness ==
    /\ lastFetch.options = DefaultOptions
    /\ lastFetch.url = RootUrl
    /\ lastFetch.typology = "Programmi Radio"
    /\ lastReturn.kind = "skipped"
    /\ served.cards > 0
    /\ status = "done" /\ result = <<>> /\ Len(requests) = 1 /\ stdout = <<>>

\* every feed the program holds: written, returned or collected by a call
HeldFeeds ==
    {stdout[i] : i \in 1..Len(stdout)}
    \cup {result[i] : i \in 1..Len(result)}
    \cup UNION {{stack[d].inner[i] : i \in 1..Len(stack[d].inner)} : d \in 1..Depth}

\* every item the program holds, in a feed or in the list a call is filling
HeldItems ==
    UNION {{f.items[i] : i \in 1..Len(f.items)} : f \in HeldFeeds}
    \cup UNION {{stack[d].items[i] : i \in 1..Len(stack[d].items)} : d \in 1..Depth}

\* the card the top call has just dealt with is the last of its items
LastCardAppended ==
    /\ Top.items # <<>>
    /\ Top.items[Len(Top.items)].id = UniqueName(Top.url, Top.ci - 1)

\* C4: every item held has a media URL, and a card becomes an item exactly
\* when it embeds its audio or the document of its path_id has it.
C4_ItemsHaveMedia ==
    /\ \A it \in HeldItems : it.enclosure.path # NoAudio
    /\ lastCard # NoCard =>
        (LastCardAppended <=> lastCard \in {"embedded", "fallback_audio"})

\* a first card dropped after its fallback, a second one appended thanks to it
C4_Witness ==
    /\ lastCard = "fallback_audio"
    /\ Top.ci = 3 /\ Len(Top.items) = 1
    /\ Len(requests) = 3

\* C5: a fallback GET that fails only moves the call to its next card: the
\* items, the output and the run are as they were.
C5_FallbackErrorDropsOneCard ==
    [][lastCard' = "fallback_error" =>
        /\ status' = "running"
        /\ stack' = [stack EXCEPT ![Depth] =
                        [@ EXCEPT !.pc = "cards_link", !.ci = @ + 1]]
        /\ stdout' = stdout
        /\ result' = result]_vars

\* a nested call whose first card failed its fallback and which has a card left
C5_Witness ==
    /\ lastCard = "fallback_error"
    /\ status = "running" /\ Depth >= 2
    /\ Top.ci = 2 /\ Top.ncards = 2

\* the frame of a caller after a child returned nothing to it
ResumedWithNothing(p) ==
    IF p.pc = "tabs" THEN [p EXCEPT !.ti = @ + 1] ELSE [p EXCEPT !.pc = "cards_audio"]

\* C6: a descriptor GET that fails ends that call alone: it returns its
\* (empty) child results, writes nothing, and its caller goes on with what
\* it had collected.
C6_FetchErrorEndsOneCall ==
    [][lastFetch'.status = "error" =>
        /\ lastReturn'.kind = "failed"
        /\ lastReturn'.url = Top.url
        /\ lastReturn'.value = Top.inner /\ Top.inner = <<>>
        /\ stdout' = stdout
        /\ IF Depth = 1
           THEN status' = "done" /\ result' = <<>>
           ELSE /\ status' = "running"
                /\ stack' = SubSeq(stack, 1, Depth - 2)
                                \o <<ResumedWithNothing(stack[Depth - 1])>>]_vars

\* a nested GET has failed and the caller still holds the feed of an earlier child
C6_Witness ==
    /\ lastFetch.status = "error"
    /\ status = "running" /\ Depth >= 1
    /\ Top.inner # <<>>

\* C7: the step that ends a call after assembly writes the feed of the call,
\* once, if it has items and nothing otherwise; no other step writes.
C7_OneDocumentPerFeedWithItems ==
    [][IF lastReturn'.kind = "done"
       THEN /\ lastReturn'.value[1].url = Top.url
            /\ stdout' = IF lastReturn'.value[1].items # <<>>
                         THEN Append(stdout, lastReturn'.value[1])
                         ELSE stdout
       ELSE stdout' = stdout]_vars

\* the root has no item and wrote nothing, a nested node has one and was written
C7_Witness ==
    /\ status = "done" /\ Len(result) >= 2
    /\ result[1].url = RootUrl /\ result[1].items = <<>>
    /\ Len(stdout) = 1 /\ stdout[1].url # RootUrl

\* C8: a call that ends after assembly returns its own feed, with or without
\* items, followed by its child results in the order collected; what a call
\* returns is appended to the child results of its caller.
C8_OwnFeedThenChildResults ==
    [][/\ lastReturn'.kind = "done" =>
            /\ lastReturn'.value[1].url = Top.url
            /\ Len(lastReturn'.value[1].items) = Len(Top.items)
            /\ Tail(lastReturn'.value) = Top.inner
       /\ lastReturn'.kind # "none" =>
            IF Depth = 1
            THEN result' = lastReturn'.value
            ELSE stack'[Depth - 1].inner =
                    stack[Depth - 1].inner \o lastReturn'.value]_vars

\* the root returns its own feed, empty, then the feeds of two child traversals
C8_Witness ==
    /\ status = "done"
    /\ Len(result) = 3
    /\ result[1].url = RootUrl /\ result[1].items = <<>>
    /\ result[2].url # result[3].url

\* the item keeps a season and an episode
HasSeasonEpisode(it) == it.season # None /\ it.episode # None

\* int() accepts the season and the episode of the item
NumericSeasonEpisode(it) ==
    ~RaisesValueError(it.season) /\ ~RaisesValueError(it.episode)

\* the position of the card of the item among the cards of its descriptor
CardPosition(it) == DigitVal(it.id[2])

\* the feeds with items among those written or returned
FeedsWithItems == {f \in HeldFeeds : f.items # <<>>}

\* C9: a feed whose items all keep a numeric season and episode has them in
\* ascending order of episode + season * 10000; a feed with an item lacking
\* them has its items in ascending order of update, the cards' order breaking
\* ties, whatever the seasons and episodes.
C9_SortStrategy ==
    \A f \in FeedsWithItems :
        LET n == Len(f.items)
            all == \A i \in 1..n : HasSeasonEpisode(f.items[i])
            numeric == \A i \in 1..n : NumericSeasonEpisode(f.items[i])
            number(it) == int(it.episode) + int(it.season) * 10000
        IN  /\ all /\ numeric =>
                \A i, j \in 1..n :
                    i < j => number(f.items[i]) <= number(f.items[j])
            /\ ~all =>
                \A i, j \in 1..n :
                    i < j =>
                        \/ f.items[i].update < f.items[j].update
                        \/ /\ f.items[i].update = f.items[j].update
                           /\ CardPosition(f.items[i]) < CardPosition(f.items[j])

\* three items with numeric seasons and episodes were written in another order
\* than the one of their cards
C9_Witness ==
    /\ status = "done" /\ Len(stdout) = 1
    /\ Len(stdout[1].items) = 3
    /\ \A i \in 1..3 :
        HasSeasonEpisode(stdout[1].items[i]) /\ NumericSeasonEpisode(stdout[1].items[i])
    /\ CardPosition(stdout[1].items[1]) = 3
    /\ stdout[1].items[1].season # stdout[1].items[3].season

\* season and episode as strings, each padded with zeros to five characters
PaddedKey(it) == CodePoints(zfill(str(it.season), 5) \o zfill(str(it.episode), 5))

\* the written feed has the items of exactly the cards at positions 1..n
SameItemsAsCards(f, n) ==
    /\ Len(f.items) = n
    /\ \A k \in 1..n : \E i \in 1..n : CardPosition(f.items[i]) = k

\* the item of the card at position k
ItemOfCard(f, k) == f.items[CHOOSE i \in 1..Len(f.items) : CardPosition(f.items[i]) = k]

\* the items of the cards are (1, "2"), (1, "1"), ("x", "y") in this order
ExampleCards(f) ==
    /\ SameItemsAsCards(f, 3)
    /\ ItemOfCard(f, 1).season = IntV(1) /\ ItemOfCard(f, 1).episode = StrV(<<"2">>)
    /\ ItemOfCard(f, 2).season = IntV(1) /\ ItemOfCard(f, 2).episode = StrV(<<"1">>)
    /\ ItemOfCard(f, 3).season = StrV(<<"x">>) /\ ItemOfCard(f, 3).episode = StrV(<<"y">>)

\* C10: a feed whose items all keep a season and an episode, one of them not
\* numeric, is written with all its items, each once, in ascending order of
\* the padded string key; (1, "2"), (1, "1"), ("x", "y") end as
\* (1, "1"), (1, "2"), ("x", "y").
C10_LexicalFallback ==
    status = "done" =>
        \A f \in FeedsWithItems :
            LET n == Len(f.items) IN
            (/\ \A i \in 1..n : HasSeasonEpisode(f.items[i])
             /\ \E i \in 1..n : ~NumericSeasonEpisode(f.items[i]))
            =>  /\ SameItemsAsCards(f, served.cards)
                /\ f \in {stdout[i] : i \in 1..Len(stdout)}
                /\ \A i, j \in 1..n :
                    i < j => ~KeyLess(PaddedKey(f.items[j]), PaddedKey(f.items[i]))
                /\ ExampleCards(f) =>
                    /\ CardPosition(f.items[1]) = 2
                    /\ CardPosition(f.items[2]) = 1
                    /\ CardPosition(f.items[3]) = 3

\* the example has been sorted and written
C10_Witness ==
    /\ status = "done" /\ Len(stdout) = 1
    /\ ExampleCards(stdout[1])
    /\ CardPosition(stdout[1].items[1]) = 2

\* the names of a list of {"name": ...} objects
NamesIn(entries) == {entries[i].name : i \in 1..Len(entries)}

\* the names under an optional key: none when the key is absent
NamesUnder(list) == IF list.present THEN NamesIn(list.entries) ELSE {}

\* the names of the five sources of the descriptor
SourceNames ==
    NamesIn(category_info.genres) \cup NamesIn(category_info.subgenres)
        \cup NamesUnder(category_info.escaped_genres)
        \cup NamesUnder(category_info.escaped_typology)
        \cup (IF category_info.metadata
               THEN NamesUnder(category_info.product_sources) ELSE {})

\* genres [A, B], subgenres [B, C], escaped genres [C], nothing else
ExampleInfo ==
    /\ category_info.genres = <<[name |-> "A"], [name |-> "B"]>>
    /\ category_info.subgenres = <<[name |-> "B"], [name |-> "C"]>>
    /\ category_info.escaped_genres = ListUnder(<<[name |-> "C"]>>)
    /\ ~category_info.escaped_typology.present
    /\ ~category_info.metadata /\ ~category_info.product_sources.present

\* the call is past the categories of its feed
CategoriesSet == status = "running" /\ Depth = 1 /\ Top.pc = "cards_link"

\* C11: the categories of a feed are the names of the five sources, each
\* once; absent optional sources add nothing and stop nothing; genres [A, B],
\* subgenres [B, C], escaped genres [C] give A, B and C, three categories.
C11_CategoriesAreDedupedUnion ==
    /\ status = "running" \/ status = "done"
    /\ CategoriesSet =>
        /\ \A i, j \in 1..Len(Top.categories) :
                Top.categories[i] = Top.categories[j] => i = j
        /\ {Top.categories[i] : i \in 1..Len(Top.categories)} = SourceNames
        /\ ExampleInfo =>
            /\ Len(Top.categories) = 3
            /\ {Top.categories[i] : i \in 1..3} = {"A", "B", "C"}

\* the example has gone through, its product sources absent
C11_Witness ==
    /\ CategoriesSet /\ ExampleInfo
    /\ Len(Top.categories) = 3

\* the descriptor just fetched lacks podcast_info
FetchedWithoutPodcastInfo == lastFetch.status = "ok" /\ ~lastFetch.podcast_info

\* C12: a descriptor without podcast_info ends the run with the KeyError, at
\* the root or below it; the step of a KeyError writes nothing and returns
\* from no call, and after it there is no request, no document and no
\* returned list.
C12_MissingKeyIsFatal ==
    [][/\ FetchedWithoutPodcastInfo' => status' = "KeyError"
       /\ (status = "running" /\ status' = "KeyError") =>
            /\ stack' = stack
            /\ stdout' = stdout
            /\ result' = <<>>
       /\ status = "KeyError" =>
            /\ status' = "KeyError"
            /\ requests' = requests
            /\ stdout' = stdout
            /\ result' = <<>>]_vars

\* a nested descriptor lacks podcast_info after a sibling was written
C12_Witness ==
    /\ status = "KeyError" /\ FetchedWithoutPodcastInfo
    /\ Depth >= 2 /\ lastFetch.url = Top.url
    /\ Len(stdout) >= 1 /\ result = <<>>

\* the top call is at the weblink of a card
AtCardLink == Running("cards_link") /\ HasCard

\* the descriptor GETs of url issued since the top call started
GetsSinceCall(url) ==
    {i \in (Top.reqMark + 1)..Len(requests) : requests[i] = DescriptorRequest(url)}

\* C13: a card whose weblink has the playlist marker, and which extend()
\* does not ignore, makes the nested call in the step that reads the weblink,
\* before any request for its audio and before it is appended or dropped;
\* when the card then gets its audio or is dropped, the GET of the nested
\* node is already in the request log of the call.
C13_CardLinkTraversedBeforeAudio ==
    [][/\ (AtCardLink /\ HasPlaylistMarker(lastExtend'.link)
                      /\ ~ExtendIgnores(lastExtend'.link)) =>
            /\ lastExtend'.outcome = "called"
            /\ requests' = requests
            /\ lastCard' = NoCard
            /\ \/ status' = "RecursionError"
               \/ /\ Len(stack') = Depth + 1
                  /\ stack'[Depth].ci = Top.ci /\ stack'[Depth].items = Top.items
                  /\ stack'[Depth + 1] = NewParser(Target(lastExtend'.link))
       /\ (lastCard' # NoCard /\ Top.followed # NoLink) =>
            GetsSinceCall(Target(Top.followed)) # {}]_vars

\* a card made the nested call, then was dropped for a failed fallback GET
C13_Witness ==
    /\ status = "running" /\ Depth >= 1
    /\ lastCard = "fallback_error"
    /\ Top.followed # NoLink
    /\ Top.items = <<>>
    /\ requests[Len(requests)].kind = "fallback"

\* the URLs of the feeds in the child-result list of the top call
HeldUrls == {Top.inner[i].url : i \in 1..Len(Top.inner)}

\* C14: extend() on a link that resolves to the URL of its node or to the URL
\* of a feed of its child-result list returns at once: no request, no call,
\* the list as it was; on any other link it makes one call of process() on a
\* new parser of the resolved URL, and the list that call returns is appended
\* to the child-result list, element by element.
C14_ExtendFrame ==
    [][/\ lastExtend'.outcome \in {"ignored", "called"} =>
            IF \/ urljoin(Top.url, lastExtend'.link) = Top.url
               \/ urljoin(Top.url, lastExtend'.link) \in HeldUrls
            THEN /\ lastExtend'.outcome = "ignored"
                 /\ requests' = requests /\ stdout' = stdout
                 /\ status' = "running"
                 /\ Len(stack') = Depth
                 /\ stack'[Depth].inner = Top.inner
            ELSE /\ lastExtend'.outcome = "called"
                 /\ requests' = requests /\ stdout' = stdout
                 /\ \/ status' = "RecursionError"
                    \/ /\ Len(stack') = Depth + 1
                       /\ stack'[Depth].inner = Top.inner
                       /\ stack'[Depth + 1] =
                            NewParser(urljoin(Top.url, lastExtend'.link))
       /\ (lastReturn'.kind # "none" /\ Depth >= 2) =>
            /\ Top.url = urljoin(stack[Depth - 1].url, stack[Depth - 1].followed)
            /\ Len(stack') = Depth - 1
            /\ stack'[Depth - 1].inner =
                    stack[Depth - 1].inner \o lastReturn'.value]_vars

\* a link to a node whose feed the call already holds has been ignored
C14_Witness ==
    /\ status = "running" /\ Depth >= 1
    /\ lastExtend.outcome = "ignored"
    /\ urljoin(Top.url, lastExtend.link) # Top.url
    /\ urljoin(Top.url, lastExtend.link) \in HeldUrls

\* the frames below the top one that the step leaves on the stack, unchanged
CallersWait ==
    \A d \in 1..(Depth - 1) :
        (d < Len(stack') \/ Len(stack') = Depth) => stack'[d] = stack[d]

\* the documents written since the top call started
WrittenSinceCall == {stdout[i] : i \in (Top.outMark + 1)..Len(stdout)}

\* C15: while a nested call runs its callers do nothing: each step leaves
\* their frames as they are, each request is a request of the top call (its
\* descriptor or the fallback of its card) and each document is the feed of
\* the top call, written in the step that ends it, after the documents of
\* all the feeds with items that its nested calls returned.
C15_DepthFirst ==
    [][/\ CallersWait
       /\ requests' # requests =>
            \/ requests' = Append(requests, DescriptorRequest(Top.url))
            \/ requests' = Append(requests, FallbackRequest)
       /\ stdout' # stdout =>
            /\ Len(stdout') = Len(stdout) + 1
            /\ SubSeq(stdout', 1, Len(stdout)) = stdout
            /\ stdout'[Len(stdout')].url = Top.url
            /\ Len(stack') = Depth - 1
            /\ \A i \in 1..Len(Top.inner) :
                    Top.inner[i].items # <<>> => Top.inner[i] \in WrittenSinceCall]_vars

\* the document of a nested node, then the document of the root
C15_Witness ==
    /\ status = "done"
    /\ Len(stdout) = 2
    /\ stdout[1].url # RootUrl /\ stdout[2].url = RootUrl
    /\ Len(result) = 2 /\ result[1] = stdout[2] /\ result[2] = stdout[1]

\* C16: a call returns the empty list for its typology only when the option
\* of the top-level call for that typology is active: with skip_programmi
\* (skip_film) inactive at the root no node, nested ones included, is skipped
\* for a radio-program or news (film or fiction) typology.
C16_RootOptionsGovern ==
    lastReturn.kind = "skipped" =>
        \/ opts.skip_programmi /\ lastFetch.typology \in RadioTypologies
        \/ opts.skip_film /\ lastFetch.typology \in FilmTypologies

\* no two feeds of the sequence have the same url
DistinctUrls(feeds) ==
    \A i, j \in 1..Len(feeds) : feeds[i].url = feeds[j].url => i = j

\* C17: when the top-level call has returned, no two documents written have
\* the same url and no two feeds of the returned list have the same url.
C17_NoUrlTwice ==
    status = "done" => DistinctUrls(stdout) /\ DistinctUrls(result)

\* how many times the feed occurs in the sequence
Occurrences(feeds, f) == Cardinality({i \in 1..Len(feeds) : feeds[i] = f})

\* C18: when the top-level call has returned, each feed occurs among the
\* documents written as many times as it occurs in the returned list if it
\* has items, and not at all if it has none; a call that ends skipped or
\* failed has written nothing and returns no feed.
C18_DocumentsMatchFeeds ==
    /\ status = "done" =>
            \A f \in HeldFeeds :
                Occurrences(stdout, f) =
                    IF f.items # <<>> THEN Occurrences(result, f) ELSE 0
    /\ lastReturn.kind \in {"skipped", "failed"} =>
            lastReturn.value = <<>> /\ lastReturn.writes = 0

\* a finished run with a feed written, a feed without items returned and not
\* written, and a node fetched that gave no feed
C18_Witness ==
    /\ status = "done"
    /\ Len(stdout) = 1 /\ Len(result) = 2
    /\ \E i \in 1..Len(result) : result[i].items = <<>>
    /\ Cardinality(DescriptorGets) = 3

\* item a is of an earlier season than item b, or of the same season and of
\* no later an episode
SeasonFirst(a, b) ==
    \/ int(a.season) < int(b.season)
    \/ int(a.season) = int(b.season) /\ int(a.episode) <= int(b.episode)

\* the feeds held whose items all have a numeric season and episode
NumericFeeds ==
    {f \in FeedsWithItems :
        \A i \in 1..Len(f.items) :
            HasSeasonEpisode(f.items[i]) /\ NumericSeasonEpisode(f.items[i])}

\* C19 as stated: the items of a feed whose seasons and episodes are all
\* numeric are in the order of the seasons and, within a season, of the
\* episodes, whatever the non-negative values.
C19_SeasonFirstAnyEpisode ==
    \A f \in NumericFeeds :
        \A i, j \in 1..Len(f.items) : i < j => SeasonFirst(f.items[i], f.items[j])

\* C19 amended: the same when every episode is below 10000.
C19_SeasonFirstBelow10000 ==
    \A f \in NumericFeeds :
        (\A i \in 1..Len(f.items) : int(f.items[i].episode) < 10000) =>
            \A i, j \in 1..Len(f.items) :
                i < j => SeasonFirst(f.items[i], f.items[j])

\* three items of two seasons, episodes below 10000, written in another order
\* than the one of their cards
C19_Witness ==
    /\ status = "done" /\ Len(stdout) = 1
    /\ Len(stdout[1].items) = 3
    /\ \A i \in 1..3 : int(stdout[1].items[i].episode) < 10000
    /\ int(stdout[1].items[1].season) < int(stdout[1].items[3].season)
    /\ int(stdout[1].items[1].episode) = 9999
    /\ CardPosition(stdout[1].items[1]) = 3

====
